---- MODULE Spec2Model ----
(***************************************************************************)
(* zoom-recording-downloader.py: the reconciliation loop of main(), the    *)
(* completion ledger (COMPLETED_MEETING_IDS and its log file), the file    *)
(* set extraction get_downloads, download_recording, delete_recording and  *)
(* the window generator per_delta.                                         *)
(*                                                                         *)
(* Dates are whole days, identifiers and the log file are sequences of     *)
(* one-character strings.                                                  *)
(***************************************************************************)
EXTENDS Integers, Sequences, FiniteSets, TLC

\* ---- bounds of the model ------------------------------------------------
NumRecordings == 2      \* recordings the provider holds at the start
MaxFiles == 2           \* entries of a recording's recording_files
MaxBytes == 1           \* largest content-length / body length of a download
MaxDate == 5            \* per_delta inputs: start and end range over 0..MaxDate
MaxDelta == 3           \* per_delta inputs: delta ranges over 1..MaxDelta
MaxLogChars == 3        \* an interrupt cuts an append only while the log is shorter
MaxBlocks == 2          \* download_recording step by step: lengths in blocks of block_size
MaxOverPage == 1        \* a window holds up to PageSize + MaxOverPage recordings

\* ---- configuration and program constants --------------------------------
RECORDING_START_DATE == 0
RECORDING_END_DATE == 60
WindowDays == 30
StatusNoContent == 204
PageSize == 300

Min(a, b) == IF a < b THEN a ELSE b

VARIABLES
    \* the provider and the disk
    catalog,                \* k -> the recording record the provider returns
    remote,                 \* the recordings the provider still holds
    logFile,                \* contents of COMPLETED_MEETING_IDS_LOG
    good,                   \* from this run on every download and delete succeeds
    \* the process
    pc,
    COMPLETED_MEETING_IDS,
    recordings,
    index,
    meeting_id,
    downloads,
    filePos,                \* position of the for loop over downloads
    all_files_downloaded,
    success,
    \* what the current run / the current loop iteration has done so far
    ledgerAtStart,          \* COMPLETED_MEETING_IDS right after hydration
    logAtStart,             \* the log file when the run started
    cur,                    \* the loop iteration the fields below describe
    wasLedgered,            \* its identifier was in the set at the loop head
    extractCount,           \* calls of get_downloads
    dlCount,                \* per file position, calls of download_recording
    dlFailed,               \* a call of download_recording returned False or raised
    deleteCalls,            \* the calls of delete_recording: argument and HTTP status
    appends,                \* lines appended to the log
    reported,               \* the recording identifiers its messages have named
    \* per_delta as a generator
    start, end, delta, curr, windows, gen,
    \* one call of download_recording
    dl_pc,
    response,               \* what requests.get meets: declared length, body, error
    total_size,
    disk_size,              \* bytes of full_filename on the disk, -1: no such file
    fd,                     \* "none", "open" or "closed"
    result,                 \* the value the call returned
    \* one call of list_recordings
    list_pc,
    held,                   \* per window, how many recordings the provider holds
    window,                 \* position of the for loop over per_delta
    listed                  \* the local list recordings

provVars == <<catalog, remote, logFile, good>>
procVars == <<pc, COMPLETED_MEETING_IDS, recordings, index, meeting_id, downloads,
              filePos, all_files_downloaded, success>>
runVars == <<ledgerAtStart, logAtStart>>
iterVars == <<cur, wasLedgered, extractCount, dlCount, dlFailed, deleteCalls, appends,
              reported>>
genVars == <<start, end, delta, curr, windows, gen>>
dlVars == <<dl_pc, response, total_size, disk_size, fd, result>>
listVars == <<list_pc, held, window, listed>>
auxVars == <<dlVars, listVars>>
vars == <<provVars, procVars, runVars, iterVars, genVars, auxVars>>

\* ---- text: identifiers, lines, the log file -----------------------------
Digits == <<"1", "2", "3", "4", "5", "6", "7", "8", "9">>
Uuid(k) == <<"u", Digits[k]>>
MeetingId(k) == <<"i", Digits[k]>>
Whitespace == {" ", "\n", "\t", "\r"}

RECURSIVE LStrip(_)
LStrip(s) == IF s # <<>> /\ Head(s) \in Whitespace THEN LStrip(Tail(s)) ELSE s

RECURSIVE RStrip(_)
RStrip(s) ==
    IF s # <<>> /\ s[Len(s)] \in Whitespace
    THEN RStrip(SubSeq(s, 1, Len(s) - 1))
    ELSE s

\* str.strip()
Strip(s) == RStrip(LStrip(s))

\* position of the first newline of f, 0 if there is none
RECURSIVE FirstNewline(_, _)
FirstNewline(f, i) ==
    IF i > Len(f) THEN 0
    ELSE IF f[i] = "\n" THEN i
    ELSE FirstNewline(f, i + 1)

\* iterating a text file: the lines, each with its newline
RECURSIVE FileLines(_)
FileLines(f) ==
    IF f = <<>> THEN <<>>
    ELSE LET n == FirstNewline(f, 1)
         IN  IF n = 0 THEN <<f>>
             ELSE <<SubSeq(f, 1, n)>> \o FileLines(SubSeq(f, n + 1, Len(f)))

\* load_completed_meeting_ids: the set the log hydrates
LoadCompletedMeetingIds(f) == {Strip(FileLines(f)[i]) : i \in 1..Len(FileLines(f))}

\* log.write(meeting_id + '\n')
LogAppend(f, id) == f \o id \o <<"\n">>

\* ---- provider records ---------------------------------------------------
\* one entry of recording_files as the provider sends it; an entry that is
\* still being processed has an empty file_type, a TIMELINE entry has no
\* recording_type
RawFile(ft) ==
    [file_type |-> ft,
     recording_type |-> IF ft = "MP4" THEN "shared_screen_with_speaker_view" ELSE "none"]

\* the provider lists the video first and the timeline after it
FileTypesAt(i) == {"", IF i = 1 THEN "MP4" ELSE "TIMELINE"}

FileLists ==
    UNION {{fl \in [1..n -> {RawFile(ft) : ft \in {"", "MP4", "TIMELINE"}}] :
                \A i \in 1..n : fl[i].file_type \in FileTypesAt(i)} : n \in 0..MaxFiles}

\* has_files = FALSE: the record has no recording_files key
Recordings(k) ==
    {[uuid |-> Uuid(k), id |-> MeetingId(k), start_day |-> 15 * k, has_files |-> TRUE, recording_files |-> fl] :
        fl \in FileLists}
    \cup {[uuid |-> Uuid(k), id |-> MeetingId(k), start_day |-> 15 * k, has_files |-> FALSE,
           recording_files |-> <<>>]}

\* get_downloads testing only for the missing key
GetDownloadsRaisesOnMissingKey(recording) == ~recording.has_files

\* get_downloads raises when recording_files is missing or empty
GetDownloadsRaises(recording) ==
    ~recording.has_files \/ recording.recording_files = <<>>

\* the category get_downloads derives for one entry
RecordingType(download) ==
    IF download.file_type = "" THEN "incomplete"
    ELSE IF download.file_type # "TIMELINE" THEN download.recording_type
    ELSE download.file_type

\* get_downloads: the tuples (file_type, ..., recording_type, recording_id)
GetDownloads(recording) ==
    [i \in 1..Len(recording.recording_files) |->
        [file_type |-> recording.recording_files[i].file_type,
         recording_type |-> RecordingType(recording.recording_files[i]),
         recording_id |-> i]]

\* per_delta without the min(): the last window runs past end
PerDeltaYieldUnclamped(c, e, d) == <<c, c + d>>

\* ---- per_delta and list_recordings --------------------------------------
\* one yield of per_delta
PerDeltaYield(c, e, d) == <<c, Min(c + d, e)>>

\* the whole sequence per_delta(s, e, d) yields (d > 0)
RECURSIVE PerDelta(_, _, _)
PerDelta(s, e, d) ==
    IF s < e THEN <<PerDeltaYield(s, e, d)>> \o PerDelta(s + d, e, d) ELSE <<>>

RECURSIVE SeqOfSet(_)
SeqOfSet(S) ==
    IF S = {} THEN <<>>
    ELSE LET k == CHOOSE x \in S : \A y \in S : x <= y
         IN  <<k>> \o SeqOfSet(S \ {k})

\* response.json()["meetings"] of one window: the provider's from/to are inclusive days
Meetings(from, to) ==
    LET ks == SeqOfSet({k \in remote : from <= catalog[k].start_day
                                          /\ catalog[k].start_day <= to})
    IN  [i \in 1..Len(ks) |-> catalog[ks[i]]]

RECURSIVE ExtendAll(_)
ExtendAll(ws) ==
    IF ws = <<>> THEN <<>>
    ELSE Meetings(Head(ws)[1], Head(ws)[2]) \o ExtendAll(Tail(ws))

ListRecordings ==
    ExtendAll(PerDelta(RECORDING_START_DATE, RECORDING_END_DATE, WindowDays))

\* ---- download_recording and delete_recording ----------------------------
\* What one call of download_recording meets: the declared content-length
\* (absent: -1), the bytes the body delivers, and where an exception is
\* raised, if anywhere.
DownloadInputs ==
    [declared : -1..MaxBytes, body : 0..MaxBytes, error : {"none"}]
    \cup [declared : {0}, body : {0}, error : {"connect", "stream", "disk"}]

GoodDownload(in) == in.error = "none" /\ in.declared = in.body

\* int(response.headers.get("content-length", 0))
TotalSize(in) == IF in.declared = -1 THEN 0 ELSE in.declared

\* "True", "False", or "raise": requests.get is outside the try block, and the
\* except handler reads recording_id, a name download_recording does not have
DownloadRecording(in) ==
    IF in.error = "connect" THEN "raise"
    ELSE IF in.error \in {"stream", "disk"} THEN "raise"
    ELSE IF in.body = TotalSize(in) THEN "True"
    ELSE "False"

DeleteStatuses == {StatusNoContent, 404}

\* delete_recording taking any response for success
DeleteRecordingAnyStatus(status) == TRUE

\* delete_recording returns True exactly on 204
DeleteRecording(status) == status = StatusNoContent

\* ---- the state after construction ---------------------------------------
FreshProcess ==
    /\ pc = "boot"
    /\ COMPLETED_MEETING_IDS = {}
    /\ recordings = <<>>
    /\ index = 0
    /\ meeting_id = <<>>
    /\ downloads = <<>>
    /\ filePos = 0
    /\ all_files_downloaded = TRUE
    /\ success = FALSE
    /\ ledgerAtStart = {}
    /\ logAtStart = <<>>
    /\ cur = 0
    /\ wasLedgered = FALSE
    /\ extractCount = 0
    /\ dlCount = <<>>
    /\ dlFailed = FALSE
    /\ deleteCalls = <<>>
    /\ appends = 0
    /\ reported = {}

GenIdle ==
    /\ start = 0 /\ end = 0 /\ delta = 1 /\ curr = 0 /\ windows = <<>> /\ gen = "idle"

\* download_recording has not been called
DlIdle ==
    /\ dl_pc = "idle"
    /\ response = [declared |-> 0, body |-> 0, error |-> "none"]
    /\ total_size = 0
    /\ disk_size = -1
    /\ fd = "none"
    /\ result = FALSE

\* list_recordings has not been called
ListIdle ==
    /\ list_pc = "idle" /\ held = <<>> /\ window = 0 /\ listed = <<>>

Init ==
    /\ catalog \in [1..NumRecordings -> UNION {Recordings(k) : k \in 1..NumRecordings}]
    /\ \A k \in 1..NumRecordings : catalog[k] \in Recordings(k)
    /\ remote = 1..NumRecordings
    /\ logFile = <<>>
    /\ good = FALSE
    /\ FreshProcess
    /\ GenIdle
    /\ DlIdle
    /\ ListIdle

\* ---- main(): start of a run ---------------------------------------------
\* load_completed_meeting_ids() and list_recordings() for the one user whose
\* email passes the filter of the users loop
StartRun ==
    /\ pc = "boot"
    /\ COMPLETED_MEETING_IDS' = COMPLETED_MEETING_IDS \cup LoadCompletedMeetingIds(logFile)
    /\ ledgerAtStart' = COMPLETED_MEETING_IDS'
    /\ logAtStart' = logFile
    /\ recordings' = ListRecordings
    /\ index' = 1
    /\ pc' = "loop"
    /\ UNCHANGED <<provVars, meeting_id, downloads, filePos,
                   all_files_downloaded, success, iterVars, genVars, auxVars>>

\* the membership test made with another key than the one the ledger holds
IsCompletedWrongKey(id) == (<<"i">> \o id) \in COMPLETED_MEETING_IDS

\* ---- main(): head of the loop over recordings ---------------------------
\* meeting_id in COMPLETED_MEETING_IDS
IsCompleted(id) == id \in COMPLETED_MEETING_IDS

\* lines 377-379, and the bookkeeping of a new iteration
LoopHead ==
    /\ pc = "loop"
    /\ index <= Len(recordings)
    /\ success' = FALSE
    /\ all_files_downloaded' = TRUE
    /\ meeting_id' = recordings[index].uuid
    /\ cur' = index
    /\ wasLedgered' = (recordings[index].uuid \in COMPLETED_MEETING_IDS)
    /\ dlCount' = [i \in 1..Len(recordings[index].recording_files) |-> 0]
    /\ dlFailed' = FALSE
    /\ deleteCalls' = <<>>
    /\ appends' = 0

\* lines 380-382: continue
SkipCompleted ==
    /\ LoopHead
    /\ IsCompleted(meeting_id')
    /\ extractCount' = 0
    /\ reported' = {meeting_id'}
    /\ index' = index + 1
    /\ pc' = "loop"
    /\ UNCHANGED <<provVars, COMPLETED_MEETING_IDS, recordings, downloads, filePos,
                   runVars, genVars, auxVars>>

\* lines 384-390: get_downloads raises, continue
NoFilesFound ==
    /\ LoopHead
    /\ ~IsCompleted(meeting_id')
    /\ GetDownloadsRaises(recordings[index])
    /\ extractCount' = 1
    /\ reported' = {recordings[index].id}
    /\ index' = index + 1
    /\ pc' = "loop"
    /\ UNCHANGED <<provVars, COMPLETED_MEETING_IDS, recordings, downloads, filePos,
                   runVars, genVars, auxVars>>

\* lines 384-385: get_downloads returns, the first loop over files begins
ExtractFiles ==
    /\ LoopHead
    /\ ~IsCompleted(meeting_id')
    /\ ~GetDownloadsRaises(recordings[index])
    /\ extractCount' = 1
    /\ reported' = {}
    /\ downloads' = GetDownloads(recordings[index])
    /\ filePos' = 1
    /\ pc' = "files"
    /\ UNCHANGED <<provVars, COMPLETED_MEETING_IDS, recordings, index, runVars, genVars, auxVars>>

\* ---- main(): the first loop over files, lines 392-414 -------------------
FirstLoopDownload ==
    /\ pc = "files"
    /\ filePos <= Len(downloads)
    /\ downloads[filePos].recording_type # "incomplete"
    /\ \E in \in DownloadInputs :
        /\ good => GoodDownload(in)
        /\ LET r == DownloadRecording(in)
           IN  /\ pc' = IF r = "raise" THEN "aborted" ELSE "files"
               /\ filePos' = IF r = "raise" THEN filePos ELSE filePos + 1
               /\ all_files_downloaded' = IF r = "False" THEN FALSE ELSE all_files_downloaded
               /\ dlFailed' = (dlFailed \/ r # "True")
    /\ dlCount' = [dlCount EXCEPT ![filePos] = @ + 1]
    /\ UNCHANGED <<provVars, COMPLETED_MEETING_IDS, recordings, index, meeting_id,
                   downloads, success, runVars, cur, wasLedgered, extractCount,
                   deleteCalls, appends, reported, genVars, auxVars>>

\* the incomplete branch without all_files_downloaded = False
FirstLoopIncompleteKeepsFlag ==
    /\ pc = "files"
    /\ filePos <= Len(downloads)
    /\ downloads[filePos].recording_type = "incomplete"
    /\ success' = FALSE
    /\ filePos' = filePos + 1
    /\ UNCHANGED <<provVars, pc, COMPLETED_MEETING_IDS, recordings, index, meeting_id,
                   downloads, all_files_downloaded, runVars, iterVars, genVars, auxVars>>

FirstLoopIncomplete ==
    /\ pc = "files"
    /\ filePos <= Len(downloads)
    /\ downloads[filePos].recording_type = "incomplete"
    /\ all_files_downloaded' = FALSE
    /\ success' = FALSE
    /\ filePos' = filePos + 1
    /\ UNCHANGED <<provVars, pc, COMPLETED_MEETING_IDS, recordings, index, meeting_id,
                   downloads, runVars, iterVars, genVars, auxVars>>

\* ---- main(): after the first loop, lines 416-437 ------------------------
\* the recordings of the provider a delete of id removes
Held(id) == {k \in remote : catalog[k].uuid = id}

\* the append to the log without COMPLETED_MEETING_IDS.add
AllFilesDownloadedLogOnly ==
    /\ pc = "files"
    /\ filePos > Len(downloads)
    /\ all_files_downloaded
    /\ \E status \in DeleteStatuses :
        /\ good => status = StatusNoContent
        /\ deleteCalls' = Append(deleteCalls, [meeting_id |-> meeting_id, status |-> status])
        /\ remote' = IF status = StatusNoContent THEN remote \ Held(meeting_id) ELSE remote
        /\ IF DeleteRecording(status)
           THEN /\ COMPLETED_MEETING_IDS' = COMPLETED_MEETING_IDS
                /\ logFile' = LogAppend(logFile, meeting_id)
                /\ appends' = appends + 1
           ELSE UNCHANGED <<COMPLETED_MEETING_IDS, logFile, appends>>
    /\ reported' = reported \cup {meeting_id}
    /\ index' = index + 1
    /\ pc' = "loop"
    /\ UNCHANGED <<catalog, good, recordings, meeting_id, downloads, filePos,
                   all_files_downloaded, success, runVars, cur, wasLedgered,
                   extractCount, dlCount, dlFailed, genVars, auxVars>>

\* lines 416-422: delete_recording, and on True the ledger append
AllFilesDownloaded ==
    /\ pc = "files"
    /\ filePos > Len(downloads)
    /\ all_files_downloaded
    /\ \E status \in DeleteStatuses :
        /\ good => status = StatusNoContent
        /\ deleteCalls' = Append(deleteCalls, [meeting_id |-> meeting_id, status |-> status])
        /\ remote' = IF status = StatusNoContent THEN remote \ Held(meeting_id) ELSE remote
        /\ IF DeleteRecording(status)
           THEN /\ COMPLETED_MEETING_IDS' = COMPLETED_MEETING_IDS \cup {meeting_id}
                /\ logFile' = LogAppend(logFile, meeting_id)
                /\ appends' = appends + 1
           ELSE UNCHANGED <<COMPLETED_MEETING_IDS, logFile, appends>>
    /\ reported' = reported \cup {meeting_id}
    /\ index' = index + 1
    /\ pc' = "loop"
    /\ UNCHANGED <<catalog, good, recordings, meeting_id, downloads, filePos,
                   all_files_downloaded, success, runVars, cur, wasLedgered,
                   extractCount, dlCount, dlFailed, genVars, auxVars>>

\* lines 423-437: the else branch extracts the file set again
NotAllFilesDownloaded ==
    /\ pc = "files"
    /\ filePos > Len(downloads)
    /\ ~all_files_downloaded
    /\ success' = FALSE
    /\ extractCount' = extractCount + 1
    /\ IF GetDownloadsRaises(recordings[index])
       THEN /\ reported' = reported \cup {meeting_id, recordings[index].id}
            /\ index' = index + 1
            /\ pc' = "loop"
            /\ UNCHANGED <<downloads, filePos>>
       ELSE /\ downloads' = GetDownloads(recordings[index])
            /\ filePos' = 1
            /\ pc' = "again"
            /\ reported' = reported \cup {meeting_id}
            /\ UNCHANGED index
    /\ UNCHANGED <<provVars, COMPLETED_MEETING_IDS, recordings, meeting_id,
                   all_files_downloaded, runVars, cur, wasLedgered, dlCount, dlFailed,
                   deleteCalls, appends, genVars, auxVars>>

\* ---- main(): the second loop over files, lines 439-471 ------------------
SecondLoopDownload ==
    /\ pc = "again"
    /\ filePos <= Len(downloads)
    /\ downloads[filePos].recording_type # "incomplete"
    /\ \E in \in DownloadInputs :
        /\ good => GoodDownload(in)
        /\ LET r == DownloadRecording(in)
           IN  /\ pc' = IF r = "raise" THEN "aborted" ELSE "again"
               /\ filePos' = IF r = "raise" THEN filePos ELSE filePos + 1
               /\ success' = IF r = "raise" THEN success ELSE (success \/ r = "True")
               /\ dlFailed' = (dlFailed \/ r # "True")
    /\ dlCount' = [dlCount EXCEPT ![filePos] = @ + 1]
    /\ UNCHANGED <<provVars, COMPLETED_MEETING_IDS, recordings, index, meeting_id,
                   downloads, all_files_downloaded, runVars, cur, wasLedgered,
                   extractCount, deleteCalls, appends, reported, genVars, auxVars>>

SecondLoopIncomplete ==
    /\ pc = "again"
    /\ filePos <= Len(downloads)
    /\ downloads[filePos].recording_type = "incomplete"
    /\ success' = FALSE
    /\ filePos' = filePos + 1
    /\ UNCHANGED <<provVars, pc, COMPLETED_MEETING_IDS, recordings, index, meeting_id,
                   downloads, all_files_downloaded, runVars, iterVars, genVars, auxVars>>

\* lines 465-471: if success, the ledger append
SecondLoopDone ==
    /\ pc = "again"
    /\ filePos > Len(downloads)
    /\ IF success
       THEN /\ COMPLETED_MEETING_IDS' = COMPLETED_MEETING_IDS \cup {meeting_id}
            /\ logFile' = LogAppend(logFile, meeting_id)
            /\ appends' = appends + 1
       ELSE UNCHANGED <<COMPLETED_MEETING_IDS, logFile, appends>>
    /\ index' = index + 1
    /\ pc' = "loop"
    /\ UNCHANGED <<catalog, remote, good, recordings, meeting_id, downloads, filePos,
                   all_files_downloaded, success, runVars, cur, wasLedgered,
                   extractCount, dlCount, dlFailed, deleteCalls, reported, genVars,
                   auxVars>>

\* line 473: the loop is exhausted, "All done!"
AllDone ==
    /\ pc = "loop"
    /\ index > Len(recordings)
    /\ pc' = "done"
    /\ UNCHANGED <<provVars, COMPLETED_MEETING_IDS, recordings, index, meeting_id,
                   downloads, filePos, all_files_downloaded, success, runVars,
                   iterVars, genVars, auxVars>>

\* a new process: the module-level state of lines 48-82, nothing of the last run
NewProcess ==
    /\ pc' = "boot"
    /\ COMPLETED_MEETING_IDS' = {}
    /\ recordings' = <<>>
    /\ index' = 0
    /\ meeting_id' = <<>>
    /\ downloads' = <<>>
    /\ filePos' = 0
    /\ all_files_downloaded' = TRUE
    /\ success' = FALSE
    /\ ledgerAtStart' = {}
    /\ logAtStart' = <<>>
    /\ cur' = 0
    /\ wasLedgered' = FALSE
    /\ extractCount' = 0
    /\ dlCount' = <<>>
    /\ dlFailed' = FALSE
    /\ deleteCalls' = <<>>
    /\ appends' = 0
    /\ reported' = {}
    /\ UNCHANGED <<provVars, genVars, auxVars>>

\* the process has ended (normally or by an uncaught exception) and the tool is
\* run again: a new process, only the log file and the provider keep their state
Restart ==
    /\ pc \in {"done", "aborted"}
    /\ NewProcess

Next ==
    \/ StartRun
    \/ SkipCompleted
    \/ NoFilesFound
    \/ ExtractFiles
    \/ FirstLoopDownload
    \/ FirstLoopIncomplete
    \/ AllFilesDownloaded
    \/ NotAllFilesDownloaded
    \/ SecondLoopDownload
    \/ SecondLoopIncomplete
    \/ SecondLoopDone
    \/ AllDone
    \/ Restart

Spec == Init /\ [][Next]_vars

\* The provider and the network recover between two runs: from now on every
\* download delivers its declared length and every delete answers 204.
Recover ==
    /\ pc = "boot"
    /\ ~good
    /\ good' = TRUE
    /\ UNCHANGED <<catalog, remote, logFile, procVars, runVars, iterVars, genVars, auxVars>>

FairNext == Next \/ Recover

\* The interpreter runs the program on, and the operator runs the tool again
\* whenever it has ended.
FairSpec == Init /\ [][FairNext]_vars /\ WF_vars(Next)

\* ---- per_delta, one next() at a time ------------------------------------
\* where the generator stands when the loop test of line 224 is made: line 223
\* on the first next(), line 226 on a later one
Resumed == IF gen = "created" THEN start ELSE curr + delta

\* line 225: the loop test holds, the generator yields and is suspended
PerDeltaNext ==
    /\ gen \in {"created", "suspended"}
    /\ Resumed < end
    /\ curr' = Resumed
    /\ windows' = Append(windows, PerDeltaYield(Resumed, end, delta))
    /\ gen' = "suspended"
    /\ UNCHANGED <<provVars, procVars, runVars, iterVars, start, end, delta, auxVars>>

\* line 224: the loop test fails, the generator is exhausted
PerDeltaStop ==
    /\ gen \in {"created", "suspended"}
    /\ ~(Resumed < end)
    /\ curr' = Resumed
    /\ gen' = "exhausted"
    /\ UNCHANGED <<provVars, procVars, runVars, iterVars, start, end, delta, windows,
                   auxVars>>

\* per_delta(start, end, delta) has been called with any days and a positive delta
InitDelta ==
    /\ catalog = <<>>
    /\ remote = {}
    /\ logFile = <<>>
    /\ good = FALSE
    /\ FreshProcess
    /\ start \in 0..MaxDate
    /\ end \in 0..MaxDate
    /\ delta \in 1..MaxDelta
    /\ curr = 0
    /\ windows = <<>>
    /\ gen = "created"
    /\ DlIdle
    /\ ListIdle

NextDelta == PerDeltaNext \/ PerDeltaStop

SpecDelta == InitDelta /\ [][NextDelta]_vars

\* ---- vocabulary of the properties ---------------------------------------
\* the record the loop iteration cur is about
Rec == recordings[cur]

InIteration == pc \in {"loop", "files", "again", "done", "aborted"} /\ cur >= 1

\* the iteration cur is over: the loop went on, or the run ended in it
IterationEnded == pc \in {"loop", "done", "aborted"} /\ cur >= 1

NoFileEntries(recording) == ~recording.has_files \/ Len(recording.recording_files) = 0

HasIncomplete(recording) ==
    \E i \in 1..Len(recording.recording_files) : recording.recording_files[i].file_type = ""

\* the two forms of the ledger
InLog(id) == \E i \in 1..Len(FileLines(logFile)) : Strip(FileLines(logFile)[i]) = id

InLedger(id) == id \in COMPLETED_MEETING_IDS \/ InLog(id)

LogLinesOf(f, id) == Cardinality({i \in 1..Len(FileLines(f)) : Strip(FileLines(f)[i]) = id})

Downloaded == {i \in 1..Len(dlCount) : dlCount[i] > 0}

DeletedOk(id) ==
    \E i \in 1..Len(deleteCalls) :
        deleteCalls[i].meeting_id = id /\ deleteCalls[i].status = StatusNoContent

\* ---- C1 -----------------------------------------------------------------
\* C1: all-or-nothing ledgering. In the reconciliation of a recording, if a
\* download returned failure (or raised) or one of its files is incomplete,
\* the reconciliation appends nothing to the log and does not put the
\* identifier into COMPLETED_MEETING_IDS.
C1_AllOrNothing ==
    (InIteration /\ (dlFailed \/ HasIncomplete(Rec)))
        => (appends = 0 /\ (Rec.uuid \in COMPLETED_MEETING_IDS => wasLedgered))

\* ---- C2 -----------------------------------------------------------------
\* C2: the ledger is written only after the remote deletion. A reconciliation
\* that appended to the log had delete_recording answer 204 for the same
\* identifier, and no recording the provider still holds is in the ledger.
C2_LedgerOnlyAfterDelete ==
    /\ (InIteration /\ appends > 0) => DeletedOk(Rec.uuid)
    /\ \A k \in remote : ~InLedger(catalog[k].uuid)

\* ---- C3 -----------------------------------------------------------------
\* the recording of the iteration has files, none incomplete, and every call of
\* download_recording returned True
AllVerified == ~NoFileEntries(Rec) /\ ~HasIncomplete(Rec) /\ ~dlFailed

\* C3: delete count per reconciliation. delete_recording is never called more
\* than once in a reconciliation and only with the recording's identifier; when
\* the reconciliation of a recording that was not ledgered has ended, it was
\* called exactly once if every file is non-incomplete and downloaded with the
\* declared size (and there is at least one file), and not at all otherwise.
C3_DeleteCount ==
    InIteration =>
        /\ Len(deleteCalls) <= 1
        /\ \A i \in 1..Len(deleteCalls) : deleteCalls[i].meeting_id = Rec.uuid
        /\ (IterationEnded /\ ~wasLedgered) =>
                Len(deleteCalls) = (IF AllVerified THEN 1 ELSE 0)

\* a reconciliation of a recording with MaxFiles files, all downloaded, has
\* ended with its one delete call
C3_Witness ==
    /\ IterationEnded /\ ~wasLedgered
    /\ Len(Rec.recording_files) = MaxFiles
    /\ Downloaded = 1..MaxFiles
    /\ Len(deleteCalls) = 1

\* ---- C4 -----------------------------------------------------------------
\* C4: idempotent re-run. In every run, an iteration over a recording whose
\* identifier the log hydrated at the start of the run extracts no file set,
\* downloads nothing, calls no delete and appends nothing; every identifier
\* hydrated stays in COMPLETED_MEETING_IDS and keeps the number of log lines
\* it had when the run started.
C4_IdempotentRerun ==
    /\ (InIteration /\ Rec.uuid \in ledgerAtStart) =>
            /\ extractCount = 0
            /\ Downloaded = {}
            /\ deleteCalls = <<>>
            /\ appends = 0
    /\ pc # "boot" =>
            \A id \in ledgerAtStart :
                /\ id \in COMPLETED_MEETING_IDS
                /\ LogLinesOf(logFile, id) = LogLinesOf(logAtStart, id)

\* a later run has passed over a listed recording its log had ledgered
C4_Witness ==
    /\ pc = "loop" /\ cur >= 1
    /\ Rec.uuid \in ledgerAtStart
    /\ Len(Rec.recording_files) >= 1
    /\ index = cur + 1

\* ---- C5 -----------------------------------------------------------------
\* the recording k of the provider has at least one file and no incomplete one
Eligible(k) == ~NoFileEntries(catalog[k]) /\ ~HasIncomplete(catalog[k])

\* C5: eventual cleanup. Once every download and every delete succeeds, with
\* the tool run again and again, every recording with at least one file and
\* no incomplete file is eventually deleted from the provider and ledgered.
C5_EventualCleanup ==
    good ~> (\A k \in 1..NumRecordings :
                Eligible(k) => (k \notin remote /\ InLog(catalog[k].uuid)))

\* ---- C6 -----------------------------------------------------------------
\* C6: a failed delete leaves the ledger unchanged. When delete_recording was
\* called in a reconciliation and the provider answered another status than
\* 204, the reconciliation appends nothing and the identifier is neither in
\* COMPLETED_MEETING_IDS nor in the log, so the next run does not skip it.
C6_DeleteFailureNotLedgered ==
    (InIteration /\ deleteCalls # <<>> /\ ~DeletedOk(Rec.uuid))
        => (appends = 0 /\ ~InLedger(Rec.uuid))

\* every file downloaded, the delete was refused, and the loop went on
C6_Witness ==
    /\ IterationEnded /\ pc = "loop"
    /\ AllVerified
    /\ Downloaded = 1..Len(Rec.recording_files)
    /\ deleteCalls # <<>> /\ ~DeletedOk(Rec.uuid)
    /\ index = cur + 1

\* ---- C7 -----------------------------------------------------------------
\* C7: per-file and per-recording errors never abort the run. Whatever a
\* download meets (transport error, disk-write error, size mismatch) and
\* whether or not a recording has files, the run is never ended by an
\* uncaught exception: it goes on to the remaining recordings and the
\* final summary.
C7_RunNeverAborts == pc # "aborted"

\* ---- C8 -----------------------------------------------------------------
\* C8: NoFilesFound. The iteration over a record without file entries
\* (recording_files missing or empty) downloads nothing, calls no delete,
\* appends nothing and ends with the loop going on to the next recording;
\* such a recording is never in the ledger.
C8_NoFilesFound ==
    /\ (InIteration /\ NoFileEntries(Rec)) =>
            /\ pc \in {"loop", "done"} /\ index = cur + 1
            /\ Downloaded = {}
            /\ deleteCalls = <<>>
            /\ appends = 0
    /\ \A i \in 1..Len(recordings) :
            NoFileEntries(recordings[i]) => ~InLedger(recordings[i].uuid)

\* a run ended whose list held a record with an empty recording_files before
\* a recording that was reconciled
C8_Witness ==
    /\ pc = "done" /\ cur >= 2
    /\ recordings[1].has_files /\ NoFileEntries(recordings[1])
    /\ extractCount >= 1 /\ ~NoFileEntries(Rec)
    /\ ~InLedger(recordings[1].uuid)

\* ---- C9 -----------------------------------------------------------------
\* C9: window enumeration. For start <= end and delta > 0 the windows
\* per_delta yields are finitely many (never more than end - start), the first
\* starts at start, each ends where the next starts, each satisfies
\* a < b <= end and b - a <= delta, and when the generator is exhausted the
\* last one ends at end; start = end yields no window.
C9_Windows ==
    (start <= end /\ gen # "idle") =>
        /\ \A i \in 1..Len(windows) :
                /\ windows[i][1] < windows[i][2]
                /\ windows[i][2] <= end
                /\ windows[i][2] - windows[i][1] <= delta
        /\ windows # <<>> => windows[1][1] = start
        /\ \A i \in 1..(Len(windows) - 1) : windows[i][2] = windows[i + 1][1]
        /\ Len(windows) <= end - start
        /\ gen = "exhausted" =>
                IF start = end THEN windows = <<>>
                ELSE windows # <<>> /\ windows[Len(windows)][2] = end

\* an exhausted generator that yielded several windows, the last one cut at end
C9_Witness ==
    /\ gen = "exhausted"
    /\ start < end
    /\ Len(windows) >= 2
    /\ windows[Len(windows)][2] - windows[Len(windows)][1] < delta

\* ---- C10 ----------------------------------------------------------------
\* C10: an invalid range is rejected. Once per_delta has been run with
\* start > end it has failed with InvalidRange; it has not ended as an
\* exhausted generator that yielded nothing.
C10_InvalidRangeRejected ==
    (start > end /\ gen # "created") => gen = "InvalidRange"

\* ---- SIGINT: handle_graceful_shutdown -----------------------------------
\* The handler of lines 313-315 runs in the main thread between two bytecodes
\* and calls system.exit(0): SystemExit unwinds main() from wherever it stands.

\* SIGINT between two statements of the loops
Sigint ==
    /\ pc \in {"loop", "files", "again"}
    /\ pc' = "exited"
    /\ UNCHANGED <<provVars, COMPLETED_MEETING_IDS, recordings, index, meeting_id,
                   downloads, filePos, all_files_downloaded, success, runVars,
                   iterVars, genVars, auxVars>>

\* SIGINT between log.write(meeting_id) and log.write('\n') of lines 469-470:
\* leaving the with block closes the log, which writes the buffered text out
SigintInAppend ==
    /\ pc = "again"
    /\ filePos > Len(downloads)
    /\ success
    /\ Len(logFile) < MaxLogChars
    /\ COMPLETED_MEETING_IDS' = COMPLETED_MEETING_IDS \cup {meeting_id}
    /\ logFile' = logFile \o meeting_id
    /\ pc' = "exited"
    /\ UNCHANGED <<catalog, remote, good, recordings, index, meeting_id, downloads,
                   filePos, all_files_downloaded, success, runVars, iterVars, genVars, auxVars>>

\* the tool is run again after an interrupted run
RestartAfterExit ==
    /\ pc = "exited"
    /\ NewProcess

NextSigint == Next \/ Sigint \/ SigintInAppend \/ RestartAfterExit

SpecSigint == Init /\ [][NextSigint]_vars

\* ---- C11 ----------------------------------------------------------------
\* C11: ledger durability round trip. Once a reconciliation has completed its
\* ledger append (identifier, newline, flush), hydrating the ledger from the
\* log file reports the identifier as complete.
C11_LedgerRoundTrip ==
    (cur >= 1 /\ appends > 0) => Rec.uuid \in LoadCompletedMeetingIds(logFile)

\* ---- download_recording, one statement at a time -------------------------
\* What requests.get can meet: any declared length (absent: -1), any body, and
\* an exception raised by the connection, the stream or the disk.
DlResponses ==
    [declared : -1..MaxBlocks, body : 0..MaxBlocks,
     error : {"none", "connect", "stream", "disk"}]

\* one call; full_filename may be there from an earlier attempt
InitDownload ==
    /\ catalog = <<>>
    /\ remote = {}
    /\ logFile = <<>>
    /\ good = FALSE
    /\ FreshProcess
    /\ GenIdle
    /\ ListIdle
    /\ dl_pc = "called"
    /\ response \in DlResponses
    /\ total_size = 0
    /\ disk_size \in -1..MaxBlocks
    /\ fd = "none"
    /\ result = FALSE

DlFrame == <<provVars, procVars, runVars, iterVars, genVars, listVars>>

\* lines 262-265: requests.get is outside the try block, its exception leaves
\* the function; otherwise total_size is read from the header
DlGet ==
    /\ dl_pc = "called"
    /\ IF response.error = "connect"
       THEN dl_pc' = "raised" /\ UNCHANGED total_size
       ELSE dl_pc' = "try" /\ total_size' = TotalSize(response)
    /\ UNCHANGED <<response, disk_size, fd, result, DlFrame>>

\* line 275: open(full_filename, "wb") creates or truncates the file
DlOpen ==
    /\ dl_pc = "try"
    /\ fd' = "open"
    /\ disk_size' = 0
    /\ dl_pc' = "writing"
    /\ UNCHANGED <<response, total_size, result, DlFrame>>

\* lines 276-278: one chunk of the body is written
DlWrite ==
    /\ dl_pc = "writing"
    /\ disk_size < response.body
    /\ disk_size' = disk_size + 1
    /\ UNCHANGED <<dl_pc, response, total_size, fd, result, DlFrame>>

\* lines 293-298: open, iter_content or fd.write raises; the with block closes
\* the file, and the handler itself raises NameError on recording_id
DlExcept ==
    /\ \/ dl_pc = "try" /\ response.error = "disk"
       \/ dl_pc = "writing" /\ response.error \in {"stream", "disk"}
    /\ fd' = IF fd = "open" THEN "closed" ELSE fd
    /\ dl_pc' = "raised"
    /\ UNCHANGED <<response, total_size, disk_size, result, DlFrame>>

\* lines 275-279: the body is exhausted, the with block closes the file
DlClose ==
    /\ dl_pc = "writing"
    /\ disk_size = response.body
    /\ response.error = "none"
    /\ fd' = "closed"
    /\ dl_pc' = "verify"
    /\ UNCHANGED <<response, total_size, disk_size, result, DlFrame>>

\* the size validation returning True whatever the sizes are
DlVerifyIgnoresSize ==
    /\ dl_pc = "verify"
    /\ result' = TRUE
    /\ dl_pc' = "returned"
    /\ UNCHANGED <<response, total_size, disk_size, fd, DlFrame>>

\* lines 282-291: disk_size == total_size decides the return value
DlVerify ==
    /\ dl_pc = "verify"
    /\ result' = (disk_size = total_size)
    /\ dl_pc' = "returned"
    /\ UNCHANGED <<response, total_size, disk_size, fd, DlFrame>>

\* lines 313-315 and 482: SIGINT runs system.exit(0) in the main thread wherever
\* it stands; SystemExit is no Exception, so only the with block acts on it
DlSigint ==
    /\ dl_pc \in {"called", "try", "writing", "verify"}
    /\ fd' = IF fd = "open" THEN "closed" ELSE fd
    /\ dl_pc' = "exited"
    /\ UNCHANGED <<response, total_size, disk_size, result, DlFrame>>

NextDownload == DlGet \/ DlOpen \/ DlWrite \/ DlExcept \/ DlClose \/ DlVerify \/ DlSigint

SpecDownload == InitDownload /\ [][NextDownload]_vars

ListWindows == PerDelta(RECORDING_START_DATE, RECORDING_END_DATE, WindowDays)

\* recordings the provider may hold in one window: few, or about a page
HeldCounts == (0..(MaxOverPage + 1)) \cup ((PageSize - 1)..(PageSize + MaxOverPage))

\* the n-th recording of window w
Meeting(w, n) == [window |-> w, ordinal |-> n]

\* recordings_data["meetings"] of the one request made for window w: the
\* provider answers with at most page_size records and a next_page_token
FirstPage(w) == [n \in 1..Min(held[w], PageSize) |-> Meeting(w, n)]

InitList ==
    /\ catalog = <<>>
    /\ remote = {}
    /\ logFile = <<>>
    /\ good = FALSE
    /\ FreshProcess
    /\ GenIdle
    /\ DlIdle
    /\ list_pc = "loop"
    /\ held \in [1..Len(ListWindows) -> HeldCounts]
    /\ window = 1
    /\ listed = <<>>

ListFrame == <<provVars, procVars, runVars, iterVars, genVars, dlVars>>

\* lines 235-249: one request per window, its meetings extend the list
ListWindow ==
    /\ list_pc = "loop"
    /\ window <= Len(ListWindows)
    /\ listed' = listed \o FirstPage(window)
    /\ window' = window + 1
    /\ UNCHANGED <<list_pc, held, ListFrame>>

\* line 251: return recordings
ListReturn ==
    /\ list_pc = "loop"
    /\ window > Len(ListWindows)
    /\ list_pc' = "returned"
    /\ UNCHANGED <<held, window, listed, ListFrame>>

NextList == ListWindow \/ ListReturn

SpecList == InitList /\ [][NextList]_vars

\* ---- C13 ----------------------------------------------------------------
\* C13: complete listing per window. The list list_recordings returns holds
\* every recording the provider has in each window, whatever number of pages
\* the provider needs for them, and the windows follow each other in
\* chronological order.
C13_CompleteListing ==
    list_pc = "returned" =>
        /\ \A w \in 1..Len(ListWindows) : \A n \in 1..held[w] :
                \E i \in 1..Len(listed) : listed[i] = Meeting(w, n)
        /\ \A i, j \in 1..Len(listed) : i < j => listed[i].window <= listed[j].window

\* ---- C14 ----------------------------------------------------------------
\* the file at position i of the current recording is an incomplete one
IncompleteAt(i) == RecordingType(Rec.recording_files[i]) = "incomplete"

\* C14: every file is attempted despite earlier failures. In the reconciliation
\* of a recording an incomplete file is never passed to download_recording, and
\* every other file is: the files the first loop has passed, and all of them
\* once the first loop is over, whatever happened to the files before.
C14_EveryFileAttempted ==
    (cur >= 1 /\ extractCount >= 1 /\ ~GetDownloadsRaises(Rec)) =>
        /\ \A i \in 1..Len(Rec.recording_files) : IncompleteAt(i) => dlCount[i] = 0
        /\ pc = "files" =>
                \A i \in 1..(filePos - 1) : ~IncompleteAt(i) => dlCount[i] >= 1
        /\ pc \in {"loop", "again", "done", "aborted"} =>
                \A i \in 1..Len(Rec.recording_files) : ~IncompleteAt(i) => dlCount[i] >= 1

\* ---- C15 ----------------------------------------------------------------
\* C15: no retry in the same run. In the reconciliation of one recording the
\* file set is extracted at most once and each file is passed to
\* download_recording at most once; after a failed outcome the run goes on to
\* the next recording.
C15_NoSameRunRetry ==
    cur >= 1 =>
        /\ extractCount <= 1
        /\ \A i \in DOMAIN dlCount : dlCount[i] <= 1

\* ---- C16 ----------------------------------------------------------------
\* C16: an interrupt does not cut a file write. When SIGINT arrives during
\* download_recording and the process exits, a file the call has started is not
\* left partially written: it holds the whole body of the response.
C16_InterruptKeepsFileWhole ==
    (dl_pc = "exited" /\ fd # "none") => disk_size = response.body

\* ---- C17 ----------------------------------------------------------------
\* C17: one canonical identifier. For the recording of the current iteration
\* the messages name, the delete calls take and the ledger receives the value
\* of the one field the membership test is made with, recording["uuid"]; the
\* value of recording["id"] appears nowhere.
C17_OneIdentifier ==
    cur >= 1 =>
        /\ reported \subseteq {Rec.uuid}
        /\ \A i \in 1..Len(deleteCalls) : deleteCalls[i].meeting_id = Rec.uuid
        /\ appends > 0 => Rec.uuid \in COMPLETED_MEETING_IDS
        /\ meeting_id = Rec.uuid

\* ---- C18 ----------------------------------------------------------------
\* the recording of the current iteration was listed by this run but the
\* provider holds it no more, and not by a delete of this iteration: an
\* earlier occurrence of its identifier in the list has been deleted
DeletedEarlier == InIteration /\ Held(Rec.uuid) = {} /\ ~DeletedOk(Rec.uuid)

\* C18: at most one successful delete per identifier within a run. When the
\* list of a run holds an identifier more than once, every occurrence after
\* the one whose delete succeeded is skipped by the membership test: the file
\* set is not extracted, nothing is downloaded and delete_recording is not
\* called for it.
C18_OneDeletePerRun ==
    DeletedEarlier =>
        /\ wasLedgered
        /\ extractCount = 0
        /\ Downloaded = {}
        /\ deleteCalls = <<>>
        /\ appends = 0

\* the second occurrence of an identifier, deleted in this run, has been skipped
C18_Witness ==
    /\ DeletedEarlier
    /\ pc = "loop"
    /\ Rec.uuid \notin ledgerAtStart
    /\ \E j \in 1..(cur - 1) : recordings[j].uuid = Rec.uuid
====
